---- MODULE Spec2Model ----
(***************************************************************************)
(* TableViewImpl of pulsar/table_view_impl.go: the state store (data under *)
(* dataMu), the reader registry (cancelReaders under readersMu), the       *)
(* listener list (listeners, appended under listenersMu), the topology     *)
(* watcher goroutine, one tailing goroutine per reader, and the foreground *)
(* callers of ForEachAndListen and Close.                                  *)
(***************************************************************************)
EXTENDS Integers, Sequences, FiniteSets, TLC

\* ------------------------------------------------------------------ bounds
\* Events of one behaviour that come from outside the view: records
\* published, changes of the partition set, failures of TopicPartitions or
\* newReader, and calls of ForEachAndListen and Close.
MaxEvents == 3

Parts == {"p1", "p2"}    \* partition names TopicPartitions may return
Keys == {"k1", "k2"}     \* message keys, named in the order they first appear
Subs == {"a1", "a2"}     \* actions handed to ForEachAndListen, one call each,
                         \*   named in the order the calls take listenersMu
Closers == {"c1", "c2"}  \* callers of Close, named in the order they take
                         \*   readersMu

\* Every newReader call gets a fresh reader; a behaviour opens at most one
\* reader per partition plus one for each topology change that brings a
\* partition back.
ReaderIds == 1..(Cardinality(Parts) + MaxEvents)

NoReader == 0            \* cancelReaders has no entry for the partition
NoEntry == -1            \* data has no entry for the key
Watcher == 0             \* the goroutine running partitionUpdateCheck
Free == -1               \* dataMu is not held
Threads == {Watcher} \cup ReaderIds
User == -2               \* a goroutine of the application inside a read operation
Callers == {User} \cup Threads

VARIABLES
  topo,          \* partitions the broker reports for the topic (environment)
  nEvents,       \* events from outside the view so far
  log,           \* log[p]: records published to partition p, oldest first
  data,          \* tv.data: key -> decoded value, NoEntry when absent
  dataMu,        \* tv.dataMu: the thread holding it, or Free
  cancelReaders, \* tv.cancelReaders: partition -> reader id, or NoReader
  readersMu,     \* tv.readersMu: "free", "w" (watcher) or a Close caller
  listeners,     \* tv.listeners: sequence of registered actions
  listenersMu,   \* tv.listenersMu: "free" or the ForEachAndListen caller
  closed,        \* tv.closed
  closedCh,      \* close(tv.closedCh) calls so far (2 or more panics)
  readers,       \* reader id -> [part, pos, closeCalls, cancelled]
  nReaders,      \* readers opened by newReader so far
  task,          \* reader id -> position of its watchReaderForNewMessages
  phase,         \* "ctor": inside newTableView; "failed"; "periodic"
  wpc,           \* position of the goroutine running partitionUpdateCheck
  wparts,        \* its local partitions set
  wreader,       \* the reader it is draining, or NoReader
  pcF,           \* ForEachAndListen caller -> position
  pcC,           \* Close caller -> position
  snapCalls,     \* history: calls of each action made by its ForEach
  hmAfter,       \* history: per thread, the actions whose snapshot was
                 \*   already taken when its current record was applied
  lastApplied,   \* history: key -> payload of the record applied last
  lastOKSet,     \* history: partition set of the last successful reconcile
  prevOK,        \* history: the previous reconcile returned nil
  rop,           \* goroutine -> the read operation it is inside, or "none"
  rat,           \* goroutine -> its position inside that operation
  entriesRef,    \* the map the last Entries() returned: "none", "copy", "store"
  entriesCopy    \* the contents of the copy that Entries() call built

vars == <<topo, nEvents, log, data, dataMu, cancelReaders, readersMu, listeners,
          listenersMu, closed, closedCh, readers, nReaders, task, phase, wpc,
          wparts, wreader, pcF, pcC, snapCalls, hmAfter, lastApplied,
          lastOKSet, prevOK, rop, rat, entriesRef, entriesCopy>>

envVars == <<topo, log>>
storeVars == <<data, dataMu>>
regVars == <<cancelReaders, readersMu, readers, nReaders, task>>
lsnVars == <<listeners, listenersMu, pcF, snapCalls>>
closeVars == <<closed, closedCh, pcC>>
watchVars == <<phase, wpc, wparts, wreader>>
histVars == <<hmAfter, lastApplied, lastOKSet, prevOK>>
readVars == <<rop, rat, entriesRef, entriesCopy>>

\* ----------------------------------------------------------------- helpers
Range(s) == {s[i] : i \in 1..Len(s)}

TotalRecords == Len(log["p1"]) + Len(log["p2"])

NoRecordYet == <<0>>     \* lastApplied marker: no record applied for the key

\* A message is a tombstone iff its payload is empty (len(msg.Payload()) == 0).
IsTombstone(payload) == Len(payload) = 0

\* msg.GetSchemaValue into a fresh value of SchemaValueType, then
\* reflect.Indirect(payload).Interface(): the decoded value.
DecodeValue(payload) == IF Len(payload) = 0 THEN 0 ELSE payload[1]

\* reader.HasNext(): the reader has not reached the end of its partition.
HasNext(r) == readers[r].pos < Len(log[readers[r].part])

\* The message a thread is holding: the one its reader returned last.
ReaderOf(t) == IF t = Watcher THEN wreader ELSE t
CurMsg(t) == log[readers[ReaderOf(t)].part][readers[ReaderOf(t)].pos]

\* Lines 163-167, 175-186: the read operations of the state store.
Size == Cardinality({k \in Keys : data[k] # NoEntry})
ContainsKey(k) == data[k] # NoEntry
Get(k) == data[k]

\* The registry's partitions.
Registered == {p \in Parts : cancelReaders[p] # NoReader}

\* ------------------------------------------------------------------- Init
Init ==
  /\ topo \in {{"p1"}, {"p1", "p2"}}
  /\ nEvents = 0
  /\ log = [p \in Parts |-> <<>>]
  /\ data = [k \in Keys |-> NoEntry]
  /\ dataMu = Free
  /\ cancelReaders = [p \in Parts |-> NoReader]
  /\ readersMu = "free"
  /\ listeners = <<>>
  /\ listenersMu = "free"
  /\ closed = FALSE
  /\ closedCh = 0
  /\ readers = [r \in ReaderIds |->
                  [part |-> "p1", pos |-> 0, closeCalls |-> 0, cancelled |-> FALSE]]
  /\ nReaders = 0
  /\ task = [r \in ReaderIds |-> "none"]
  /\ phase = "ctor"
  /\ wpc = "start"
  /\ wparts = {}
  /\ wreader = NoReader
  /\ pcF = [a \in Subs |-> "idle"]
  /\ pcC = [c \in Closers |-> "idle"]
  /\ snapCalls = [a \in Subs |-> 0]
  /\ hmAfter = [t \in Threads |-> {}]
  /\ lastApplied = [k \in Keys |-> NoRecordYet]
  /\ lastOKSet = {}
  /\ prevOK = FALSE
  /\ rop = [x \in Callers |-> "none"]
  /\ rat = [x \in Callers |-> "idle"]
  /\ entriesRef = "none"
  /\ entriesCopy = [k \in Keys |-> NoEntry]

\* ------------------------------------------------------------ environment
\* One more event from outside the view; the other steps are the view's own.
Event == nEvents < MaxEvents /\ nEvents' = nEvents + 1
NoEvent == UNCHANGED nEvents

\* A producer publishes a record to a partition of the topic.  The n-th
\* record of a behaviour carries the value n, or an empty payload.
Produce(p, k, tomb) ==
  /\ Event
  /\ p \in topo
  /\ k = "k2" => \E q \in Parts : \E i \in 1..Len(log[q]) : log[q][i].key = "k1"
  /\ log' = [log EXCEPT ![p] =
               Append(@, [key |-> k,
                          payload |-> IF tomb THEN <<>> ELSE <<TotalRecords + 1>>])]
  /\ UNCHANGED <<readVars, topo, storeVars, regVars, lsnVars, closeVars,
                 watchVars, histVars>>

\* The partition set of the topic changes.
TopoChange(s) ==
  /\ Event
  /\ s # topo
  /\ s # {}
  /\ topo' = s
  /\ UNCHANGED <<readVars, log, storeVars, regVars, lsnVars, closeVars, watchVars, histVars>>

\* ------------------------------------------------------- handleMessage
\* Where the thread goes when handleMessage returns.
HMSetPc(t, to) ==
  IF t = Watcher THEN wpc' = to /\ UNCHANGED task
  ELSE task' = [task EXCEPT ![t] = to] /\ UNCHANGED wpc

HMAt(t, at) == IF t = Watcher THEN wpc = at ELSE task[t] = at

\* A handleMessage that stores the decoded value of a tombstone too.
ApplyRecordNoDelete(d, msg) == [d EXCEPT ![msg.key] = DecodeValue(msg.payload)]

\* The state-store update of handleMessage (lines 251-258).
ApplyRecord(d, msg) ==
  IF IsTombstone(msg.payload)
  THEN [d EXCEPT ![msg.key] = NoEntry]
  ELSE [d EXCEPT ![msg.key] = DecodeValue(msg.payload)]

\* Lines 247-258: take dataMu and apply the record.
HandleMessageApply(t) ==
  /\ NoEvent
  /\ HMAt(t, "msg")
  /\ dataMu = Free
  /\ dataMu' = t
  /\ data' = ApplyRecord(data, CurMsg(t))
  /\ lastApplied' = [lastApplied EXCEPT ![CurMsg(t).key] = CurMsg(t).payload]
  /\ hmAfter' = [hmAfter EXCEPT ![t] = {a \in Subs : pcF[a] \in {"snap", "done"}}]
  /\ HMSetPc(t, "notify")
  /\ UNCHANGED <<readVars, envVars, cancelReaders, readersMu, readers, nReaders, lsnVars,
                 closeVars, phase, wparts, wreader, lastOKSet, prevOK>>

\* The listeners the range loop of line 260 iterates over.  tv.listeners is
\* read without listenersMu; the read sees the slice as it is at this step,
\* before or after a concurrent append.
NotifiedListeners == listeners

\* Lines 250, 254, 261: the value handed to the listeners is
\* reflect.Indirect(payload).Interface(), where payload is a new value of
\* SchemaValueType that GetSchemaValue fills only for a non-empty payload.
ListenerValue(msg) == DecodeValue(msg.payload)

\* Lines 260-264: the calls the range loop makes for the record thread t
\* holds, in order, when the listeners in errs return an error: the error
\* is logged and the loop goes on.
NotifyCalls(t, errs) ==
  [i \in 1..Len(NotifiedListeners) |->
     [listener |-> NotifiedListeners[i],
      key      |-> CurMsg(t).key,
      value    |-> ListenerValue(CurMsg(t)),
      logged   |-> NotifiedListeners[i] \in errs]]

\* Lines 260-265 and the deferred unlock: call every listener, release dataMu.
HandleMessageNotify(t) ==
  /\ NoEvent
  /\ HMAt(t, "notify")
  /\ rat[t] = "idle"
  /\ dataMu = t
  /\ dataMu' = Free
  /\ hmAfter' = [hmAfter EXCEPT ![t] = {}]
  /\ HMSetPc(t, IF t = Watcher THEN "drain" ELSE "next")
  /\ UNCHANGED <<readVars, envVars, data, cancelReaders, readersMu, readers, nReaders,
                 lsnVars, closeVars, phase, wparts, wreader, lastApplied,
                 lastOKSet, prevOK>>

\* ------------------------------------------------ partitionUpdateCheck
\* A periodic loop that returns when its check fails.
ReturnFromCheckFatal(ok) ==
  /\ phase' = IF phase = "ctor" THEN (IF ok THEN "periodic" ELSE "failed") ELSE phase
  /\ wpc' = IF phase = "ctor" THEN (IF ok THEN "start" ELSE "failed")
            ELSE (IF ok THEN "select" ELSE "stopped")
  /\ prevOK' = ok
  /\ lastOKSet' = IF ok THEN wparts ELSE lastOKSet

\* What the caller of partitionUpdateCheck does with its result: newTableView
\* returns the error (line 86) or starts periodicPartitionUpdateCheck, whose
\* first statement is another partitionUpdateCheck (lines 88, 150); the
\* periodic loop logs the error and goes to its select (lines 151-153).
ReturnFromCheck(ok) ==
  /\ phase' = IF phase = "ctor" THEN (IF ok THEN "periodic" ELSE "failed") ELSE phase
  /\ wpc' = IF phase = "ctor" THEN (IF ok THEN "start" ELSE "failed") ELSE "select"
  /\ prevOK' = ok
  /\ lastOKSet' = IF ok THEN wparts ELSE lastOKSet

\* Lines 94-102: TopicPartitions succeeds and partitions is built from it.
PartitionUpdateCheckEnumerate ==
  /\ NoEvent
  /\ wpc = "start"
  /\ wparts' = topo
  /\ wpc' = "lock"
  /\ UNCHANGED <<readVars, envVars, storeVars, regVars, lsnVars, closeVars, phase, wreader,
                 histVars>>

\* Lines 94-97: TopicPartitions fails and the check returns the error.
PartitionUpdateCheckEnumerateFail ==
  /\ Event
  /\ wpc = "start"
  /\ wparts' = {}
  /\ ReturnFromCheck(FALSE)
  /\ UNCHANGED <<readVars, envVars, storeVars, regVars, lsnVars, closeVars, wreader,
                 hmAfter, lastApplied>>

\* A removal loop that drops every entry.
StaleEveryPartition == Registered

\* The registered partitions that are no longer in partitions (line 108).
StalePartitions == {p \in Registered : p \notin wparts}

\* A removal that cancels the context and leaves the reader open.
CancelOnly(rd) == [rd EXCEPT !.cancelled = TRUE]

\* Lines 109-110 on the reader of an entry: cancelFunc() and reader.Close().
CancelAndClose(rd) == [rd EXCEPT !.cancelled = TRUE, !.closeCalls = @ + 1]

\* Lines 104-113: lock readersMu, then cancel, close and delete the entry of
\* every partition that left the topology.
PartitionUpdateCheckRemove ==
  /\ NoEvent
  /\ wpc = "lock"
  /\ readersMu = "free"
  /\ readersMu' = "w"
  /\ readers' = [r \in ReaderIds |->
                   IF \E p \in StalePartitions : cancelReaders[p] = r
                   THEN CancelAndClose(readers[r])
                   ELSE readers[r]]
  /\ cancelReaders' = [p \in Parts |->
                         IF p \in StalePartitions THEN NoReader ELSE cancelReaders[p]]
  /\ wpc' = "add"
  /\ UNCHANGED <<readVars, envVars, storeVars, nReaders, task, lsnVars, closeVars, phase,
                 wparts, wreader, histVars>>

\* The partitions of the second loop that still need a reader (line 116).
MissingPartitions == {p \in wparts : cancelReaders[p] = NoReader}

\* Lines 117-123: newReader succeeds for partition p, at EarliestMessageID.
PartitionUpdateCheckOpen(p) ==
  /\ NoEvent
  /\ wpc = "add"
  /\ p \in MissingPartitions
  /\ nReaders' = nReaders + 1
  /\ readers' = [readers EXCEPT ![nReaders + 1] =
                   [part |-> p, pos |-> 0, closeCalls |-> 0, cancelled |-> FALSE]]
  /\ wreader' = nReaders + 1
  /\ wpc' = "drain"
  /\ UNCHANGED <<readVars, envVars, storeVars, cancelReaders, readersMu, task, lsnVars,
                 closeVars, phase, wparts, histVars>>

\* Lines 124-126 and the deferred unlock: newReader fails, the check returns
\* the error.
PartitionUpdateCheckOpenFail(p) ==
  /\ Event
  /\ wpc = "add"
  /\ p \in MissingPartitions
  /\ readersMu' = "free"
  /\ wparts' = {}
  /\ ReturnFromCheck(FALSE)
  /\ UNCHANGED <<readVars, envVars, storeVars, cancelReaders, readers, nReaders, task,
                 lsnVars, closeVars, wreader, hmAfter, lastApplied>>

\* Lines 127-128: HasNext() is true and Next returns the next message.
PartitionUpdateCheckDrainNext ==
  /\ NoEvent
  /\ wpc = "drain"
  /\ HasNext(wreader)
  /\ readers' = [readers EXCEPT ![wreader].pos = @ + 1]
  /\ wpc' = "msg"
  /\ UNCHANGED <<readVars, envVars, storeVars, cancelReaders, readersMu, nReaders, task,
                 lsnVars, closeVars, phase, wparts, wreader, histVars>>

\* Lines 127-131, 135: HasNext() is true and Next returns an error and no
\* message; the error is logged and the loop tests HasNext() again.
PartitionUpdateCheckDrainError ==
  /\ Event
  /\ wpc = "drain"
  /\ HasNext(wreader)
  /\ wpc' = "drain"
  /\ UNCHANGED <<readVars, envVars, storeVars, regVars, lsnVars, closeVars, phase, wparts,
                 wreader, histVars>>

\* Lines 136-141: HasNext() is false; register the entry and start the
\* tailing goroutine.
PartitionUpdateCheckRegister ==
  /\ NoEvent
  /\ wpc = "drain"
  /\ ~HasNext(wreader)
  /\ cancelReaders' = [cancelReaders EXCEPT ![readers[wreader].part] = wreader]
  /\ task' = [task EXCEPT ![wreader] = "next"]
  /\ wreader' = NoReader
  /\ wpc' = "add"
  /\ UNCHANGED <<readVars, envVars, storeVars, readersMu, readers, nReaders, lsnVars,
                 closeVars, phase, wparts, histVars>>

\* Line 145 and the deferred unlock: both loops are done, return nil.
PartitionUpdateCheckReturn ==
  /\ NoEvent
  /\ wpc = "add"
  /\ MissingPartitions = {}
  /\ readersMu' = "free"
  /\ wparts' = {}
  /\ ReturnFromCheck(TRUE)
  /\ UNCHANGED <<readVars, envVars, storeVars, cancelReaders, readers, nReaders, task,
                 lsnVars, closeVars, wreader, hmAfter, lastApplied>>

\* ---------------------------------------- periodicPartitionUpdateCheck
\* Lines 153-156: the select takes <-tv.closedCh and the goroutine returns.
PeriodicCheckStop ==
  /\ NoEvent
  /\ wpc = "select"
  /\ closedCh > 0
  /\ wpc' = "stopped"
  /\ UNCHANGED <<readVars, envVars, storeVars, regVars, lsnVars, closeVars, phase, wparts,
                 wreader, histVars>>

\* Lines 157-158: the interval timer fires and the loop continues.  The
\* timer is armed when the select is entered, so a closedCh that is already
\* closed is taken first.
PeriodicCheckTick ==
  /\ NoEvent
  /\ wpc = "select"
  /\ closedCh = 0
  /\ wpc' = "start"
  /\ UNCHANGED <<readVars, envVars, storeVars, regVars, lsnVars, closeVars, phase, wparts,
                 wreader, histVars>>

\* ------------------------------------------ watchReaderForNewMessages
\* reader.Next(ctx) on a reader that was closed, or whose ctx was cancelled,
\* returns ConsumerClosed / context.Canceled.
NextFails(r) == readers[r].closeCalls > 0 \/ readers[r].cancelled

\* Lines 269, 277: Next returns a message.
WatchReaderNext(r) ==
  /\ NoEvent
  /\ task[r] = "next"
  /\ ~NextFails(r)
  /\ HasNext(r)
  /\ readers' = [readers EXCEPT ![r].pos = @ + 1]
  /\ task' = [task EXCEPT ![r] = "msg"]
  /\ UNCHANGED <<readVars, envVars, storeVars, cancelReaders, readersMu, nReaders, lsnVars,
                 closeVars, watchVars, histVars>>

\* The errors reader.Next(ctx) can return to the tailing goroutine of r.
NextErrors(r) ==
  (IF readers[r].closeCalls > 0 THEN {"ConsumerClosed"} ELSE {})
    \cup (IF readers[r].cancelled THEN {"Canceled"} ELSE {})
    \cup {"Other"}

\* A tailing goroutine that returns on every error of Next.
ExitsOnAny(err) == TRUE

\* Line 274: the errors on which watchReaderForNewMessages returns.
ExitsOn(err) == err \in {"ConsumerClosed", "Canceled"}

\* Lines 269-277: Next returns err and no message; the error is logged and
\* the goroutine returns or goes round its loop.  An error that is neither
\* ConsumerClosed nor context.Canceled comes from outside the view.
WatchReaderError(r, err) ==
  /\ task[r] = "next"
  /\ err \in NextErrors(r)
  /\ IF err = "Other" THEN Event ELSE NoEvent
  /\ task' = [task EXCEPT ![r] = IF ExitsOn(err) THEN "done" ELSE "next"]
  /\ UNCHANGED <<readVars, envVars, storeVars, cancelReaders, readersMu, readers, nReaders,
                 lsnVars, closeVars, watchVars, histVars>>

\* Lines 269-276: Next returns ConsumerClosed or context.Canceled.
WatchReaderExit(r) ==
  \E err \in {"ConsumerClosed", "Canceled"} : WatchReaderError(r, err)

\* Lines 269-274, 277: Next returns another error.
WatchReaderTransient(r) == WatchReaderError(r, "Other")

\* -------------------------------------------------- ForEachAndListen
\* Line 222: tv.listenersMu.Lock().  The view exists once newTableView has
\* returned it.
ForEachAndListenLock(a) ==
  /\ Event
  /\ pcF[a] = "idle"
  /\ a = "a2" => pcF["a1"] # "idle"
  /\ phase = "periodic"
  /\ listenersMu = "free"
  /\ listenersMu' = a
  /\ pcF' = [pcF EXCEPT ![a] = "lock"]
  /\ UNCHANGED <<readVars, envVars, storeVars, regVars, listeners, snapCalls, closeVars,
                 watchVars, histVars>>

\* A ForEach that iterates over data without holding dataMu.
ForEachUnlocked == TRUE

\* Line 211: tv.dataMu.Lock() returns once no other thread holds dataMu.
ForEachCanLock == dataMu = Free

\* Lines 211-218 called from line 225: ForEach holds dataMu while it hands
\* every entry to action, and every call of action returns nil.
ForEachAndListenForEach(a) ==
  /\ NoEvent
  /\ pcF[a] = "lock"
  /\ ForEachCanLock
  /\ snapCalls' = [snapCalls EXCEPT ![a] = Size]
  /\ pcF' = [pcF EXCEPT ![a] = "snap"]
  /\ UNCHANGED <<readVars, envVars, storeVars, regVars, listeners, listenersMu, closeVars,
                 watchVars, histVars>>

\* Lines 214-216, 225-227: action fails on an entry; ForEach and then
\* ForEachAndListen return the error, and the action is not registered.
ForEachAndListenFail(a) ==
  /\ NoEvent
  /\ pcF[a] = "lock"
  /\ ForEachCanLock
  /\ \E k \in Keys : data[k] # NoEntry
  /\ listenersMu' = "free"
  /\ pcF' = [pcF EXCEPT ![a] = "err"]
  /\ UNCHANGED <<readVars, envVars, storeVars, regVars, listeners, snapCalls, closeVars,
                 watchVars, histVars>>

\* Lines 229-230 and the deferred unlock: append the action and return nil.
ForEachAndListenAppend(a) ==
  /\ NoEvent
  /\ pcF[a] = "snap"
  /\ listeners' = Append(listeners, a)
  /\ listenersMu' = "free"
  /\ pcF' = [pcF EXCEPT ![a] = "done"]
  /\ UNCHANGED <<readVars, envVars, storeVars, regVars, snapCalls, closeVars, watchVars,
                 histVars>>

\* ------------------------------------------------------------- Close
\* A Close that tears down on every call.
CloseTearsDownAlways == TRUE

\* Line 237: the body of Close runs only while the view is not closed.
CloseTearsDown == ~closed

\* Lines 234-243: lock readersMu and, the first time, set closed, close the
\* reader of every entry and close closedCh.
CloseEnter(c) ==
  /\ Event
  /\ pcC[c] = "idle"
  /\ c = "c2" => pcC["c1"] # "idle"
  /\ phase = "periodic"
  /\ readersMu = "free"
  /\ readersMu' = c
  /\ pcC' = [pcC EXCEPT ![c] = "in"]
  /\ IF CloseTearsDown
     THEN /\ closed' = TRUE
          /\ readers' = [r \in ReaderIds |->
                           IF \E p \in Registered : cancelReaders[p] = r
                           THEN [readers[r] EXCEPT !.closeCalls = @ + 1]
                           ELSE readers[r]]
          /\ closedCh' = closedCh + 1
     ELSE UNCHANGED <<readVars, closed, readers, closedCh>>
  /\ UNCHANGED <<readVars, envVars, storeVars, cancelReaders, nReaders, task, lsnVars,
                 watchVars, histVars>>

\* The deferred unlock of line 235: Close returns.
CloseReturn(c) ==
  /\ NoEvent
  /\ pcC[c] = "in"
  /\ readersMu' = "free"
  /\ pcC' = [pcC EXCEPT ![c] = "returned"]
  /\ UNCHANGED <<readVars, envVars, storeVars, cancelReaders, readers, nReaders, task,
                 lsnVars, closed, closedCh, watchVars, histVars>>

\* -------------------------------------------------------------- Next
\* ------------------------------------------------------ read operations
ReadOps == {"Size", "IsEmpty", "ContainsKey", "Get", "Entries", "Keys"}

\* The read operations a callback of the application calls on the view.
CallbackOps == {"Size", "ContainsKey", "Get", "Keys"}

ReadEnter(x, op) ==
  /\ rat[x] = "idle"
  /\ rop' = [rop EXCEPT ![x] = op]
  /\ rat' = [rat EXCEPT ![x] = "lock"]
  /\ UNCHANGED <<entriesRef, entriesCopy>>

\* A goroutine of the application calls a read operation of the view that
\* newTableView returned: it is at the Lock() of lines 164, 170, 176, 183,
\* 189 or 199.
ReadCall(op) ==
  /\ Event
  /\ phase = "periodic"
  /\ ReadEnter(User, op)
  /\ UNCHANGED <<envVars, storeVars, regVars, lsnVars, closeVars, watchVars,
                 histVars>>

\* Line 261: a listener that handleMessage calls, holding dataMu, calls a
\* read operation of the view.
ListenerCallsRead(t, op) ==
  /\ Event
  /\ HMAt(t, "notify")
  /\ dataMu = t
  /\ NotifiedListeners # <<>>
  /\ ReadEnter(t, op)
  /\ UNCHANGED <<envVars, storeVars, regVars, lsnVars, closeVars, watchVars,
                 histVars>>

\* tv.dataMu.Lock() returns once no goroutine holds dataMu: the Lock of the
\* operation (lines 164, 170, 176, 183, 189, 199), or the Lock of the Size
\* that IsEmpty calls at line 172 with dataMu held.  sync.Mutex is not
\* reentrant.
ReadLock(x) ==
  /\ NoEvent
  /\ rat[x] \in {"lock", "size"}
  /\ dataMu = Free
  /\ dataMu' = x
  /\ rat' = [rat EXCEPT ![x] = IF rop[x] = "IsEmpty" /\ rat[x] = "lock"
                                THEN "size" ELSE "held"]
  /\ UNCHANGED <<envVars, data, regVars, lsnVars, closeVars, watchVars,
                 histVars, rop, entriesRef, entriesCopy>>

\* Line 195: the map Entries() returns.
EntriesReturns == "store"

\* The operation returns and its deferred Unlock releases dataMu.  Entries
\* (lines 191-195) has built its copy of tv.data by then.
ReadReturn(x) ==
  /\ NoEvent
  /\ rat[x] = "held"
  /\ dataMu = x
  /\ dataMu' = Free
  /\ rat' = [rat EXCEPT ![x] = "idle"]
  /\ rop' = [rop EXCEPT ![x] = "none"]
  /\ IF rop[x] = "Entries"
     THEN entriesRef' = EntriesReturns /\ entriesCopy' = data
     ELSE UNCHANGED <<entriesRef, entriesCopy>>
  /\ UNCHANGED <<envVars, data, regVars, lsnVars, closeVars, watchVars,
                 histVars>>

Next ==
  \/ \E p \in Parts, k \in Keys, tomb \in BOOLEAN : Produce(p, k, tomb)
  \/ \E s \in SUBSET Parts : TopoChange(s)
  \/ PartitionUpdateCheckEnumerate
  \/ PartitionUpdateCheckEnumerateFail
  \/ PartitionUpdateCheckRemove
  \/ \E p \in Parts : PartitionUpdateCheckOpen(p)
  \/ \E p \in Parts : PartitionUpdateCheckOpenFail(p)
  \/ PartitionUpdateCheckDrainNext
  \/ PartitionUpdateCheckDrainError
  \/ PartitionUpdateCheckRegister
  \/ PartitionUpdateCheckReturn
  \/ PeriodicCheckStop
  \/ PeriodicCheckTick
  \/ \E t \in Threads : HandleMessageApply(t)
  \/ \E t \in Threads : HandleMessageNotify(t)
  \/ \E r \in ReaderIds : WatchReaderNext(r)
  \/ \E r \in ReaderIds : WatchReaderExit(r)
  \/ \E r \in ReaderIds : WatchReaderTransient(r)
  \/ \E a \in Subs : ForEachAndListenLock(a)
  \/ \E a \in Subs : ForEachAndListenForEach(a)
  \/ \E a \in Subs : ForEachAndListenFail(a)
  \/ \E a \in Subs : ForEachAndListenAppend(a)
  \/ \E c \in Closers : CloseEnter(c)
  \/ \E c \in Closers : CloseReturn(c)

Spec == Init /\ [][Next]_vars

\* The view together with the application's calls of its read operations.
NextRead ==
  \/ Next
  \/ \E op \in ReadOps : ReadCall(op)
  \/ \E t \in Threads, op \in CallbackOps : ListenerCallsRead(t, op)
  \/ \E x \in Callers : ReadLock(x)
  \/ \E x \in Callers : ReadReturn(x)

ReadSpec == Init /\ [][NextRead]_vars

\* The steps of each goroutine that need nothing from outside the view.
\* The Go scheduler runs every runnable goroutine, time.After fires, and a
\* sync.Mutex that is free is handed to a goroutine waiting for it.
WatcherStep ==
  \/ PartitionUpdateCheckEnumerate
  \/ PartitionUpdateCheckRemove
  \/ \E p \in Parts : PartitionUpdateCheckOpen(p)
  \/ PartitionUpdateCheckDrainNext
  \/ PartitionUpdateCheckRegister
  \/ PartitionUpdateCheckReturn
  \/ PeriodicCheckStop
  \/ PeriodicCheckTick
  \/ HandleMessageApply(Watcher)
  \/ HandleMessageNotify(Watcher)

TaskStep(r) ==
  \/ WatchReaderNext(r)
  \/ WatchReaderExit(r)
  \/ HandleMessageApply(r)
  \/ HandleMessageNotify(r)

ListenStep(a) == ForEachAndListenForEach(a) \/ ForEachAndListenAppend(a)

FairSpec ==
  /\ Spec
  /\ WF_vars(WatcherStep)
  /\ \A r \in ReaderIds : WF_vars(TaskStep(r))
  /\ \A a \in Subs : WF_vars(ListenStep(a))
  /\ \A c \in Closers : WF_vars(CloseReturn(c))

\* ============================================================== claims
CloseReturned == \E c \in Closers : pcC[c] = "returned"

\* The threads of the view that are inside handleMessage with the record
\* applied and its notification still to come.
Notifying == {t \in Threads : IF t = Watcher THEN wpc = "notify" ELSE task[t] = "notify"}

\* C1: a record that handleMessage applies after the snapshot of a
\* ForEachAndListen(action) call was taken is delivered to action by that
\* handleMessage call: every action whose snapshot preceded the record is
\* among the listeners the notification loop calls.
C1_NoUpdateMissed ==
  [][\A t \in Threads :
       HandleMessageNotify(t) => hmAfter[t] \subseteq Range(NotifiedListeners)]_vars

\* C2: a record applied before the snapshot of a ForEachAndListen(action)
\* call is never handed to action by the notification loop: whenever a
\* thread is about to notify, every registered listener had taken its
\* snapshot before the record was applied; and no action is in the listener
\* list twice, so one record reaches a subscription at most once.
C2_NoRedelivery ==
  /\ \A t \in Notifying : Range(NotifiedListeners) \subseteq hmAfter[t]
  /\ \A i, j \in 1..Len(listeners) : listeners[i] = listeners[j] => i = j

\* A listener whose snapshot held an entry is about to be notified of a
\* record applied after that snapshot.
C2_Witness ==
  \E t \in Notifying : \E a \in Range(listeners) :
     snapCalls[a] > 0 /\ a \in hmAfter[t]

\* C3: after Close has returned, no handleMessage call, from a tailing task
\* or from a reconcile drain, calls a listener.
C3_NoNotifyAfterClose ==
  [][CloseReturned =>
       ~(\E t \in Threads : HandleMessageNotify(t) /\ Len(NotifiedListeners) > 0)]_vars

\* The tailing goroutines that have been started and have not returned.
Running == {r \in ReaderIds : task[r] \in {"next", "msg", "notify"}}

\* The readers newReader returned that nobody closed.
OpenReaders == {r \in 1..nReaders : readers[r].closeCalls = 0}

\* C4: after Close has returned, no reader is opened, no entry is added to
\* the registry and no tailing task is started.
C4_NoReaderAfterClose ==
  [][CloseReturned =>
       /\ nReaders' = nReaders
       /\ \A p \in Parts : cancelReaders'[p] # NoReader => cancelReaders[p] # NoReader
       /\ \A r \in ReaderIds : task[r] = "none" => task'[r] = "none"]_vars

\* C5: a call of Close on a view that is already closed closes no reader,
\* does not close closedCh again, changes nothing else of the view, and
\* returns; closedCh is never closed twice.
C5_CloseIdempotent ==
  /\ [](closedCh <= 1)
  /\ [][\A c \in Closers :
          (closed /\ CloseEnter(c)) =>
             /\ UNCHANGED <<closed, closedCh, readers, cancelReaders, task,
                            data, listeners>>
             /\ pcC'[c] = "in"]_vars

\* Both calls of Close have returned.
C5_Witness == pcC["c1"] = "returned" /\ pcC["c2"] = "returned"

\* Close was called.
CloseCalled == \E c \in Closers : pcC[c] # "idle"

\* No call of Close is pending, the topology watcher has returned and no
\* tailing goroutine is left.
ShutDown ==
  /\ \A c \in Closers : pcC[c] # "in"
  /\ wpc = "stopped"
  /\ Running = {}

\* C6: once Close is called, Close returns, the topology watcher returns
\* and every tailing task that was started returns.
C6_BoundedShutdown == CloseCalled ~> ShutDown

\* C7: in a view that newTableView returned, whenever readersMu is free, the
\* registry holds exactly the partitions of the last successful reconcile,
\* no partition has two open readers or two running tailing tasks, and
\* every open reader and every running tailing task is the one of its
\* partition's registry entry.
C7_RegistryInvariant ==
  (phase = "periodic" /\ readersMu = "free") =>
    /\ Registered = lastOKSet
    /\ \A r1, r2 \in OpenReaders : readers[r1].part = readers[r2].part => r1 = r2
    /\ \A r1, r2 \in Running : readers[r1].part = readers[r2].part => r1 = r2
    /\ \A r \in OpenReaders \cup Running : cancelReaders[readers[r].part] = r

\* A step of partitionUpdateCheck after its TopicPartitions call.
ReconcileStep ==
  \/ PartitionUpdateCheckRemove
  \/ \E p \in Parts : PartitionUpdateCheckOpen(p)
  \/ \E p \in Parts : PartitionUpdateCheckOpenFail(p)
  \/ PartitionUpdateCheckDrainNext
  \/ PartitionUpdateCheckRegister
  \/ PartitionUpdateCheckReturn

\* C8: a partitionUpdateCheck that follows a successful one and sees the
\* same partition set opens no reader, cancels and closes no reader, starts
\* no tailing task, leaves the registry as it is, and returns nil.
C8_ReconcileIdempotent ==
  [][(prevOK /\ wparts = lastOKSet /\ ReconcileStep) =>
       /\ UNCHANGED <<cancelReaders, readers, nReaders, task>>
       /\ wpc' \in {"add", "start", "select"}
       /\ wpc' # "add" => prevOK']_vars

\* The second of two checks with the same partition set is past its
\* removal loop.
C8_Witness ==
  prevOK /\ wparts = lastOKSet /\ wparts # {} /\ wpc = "add" /\ phase = "periodic"

\* C9: the removal loop of partitionUpdateCheck cancels and closes the
\* reader of every registered partition that left the topology and deletes
\* its entry; it leaves data, the entries and readers of the other
\* partitions and every tailing task as they are.
C9_RemovalFrame ==
  [][PartitionUpdateCheckRemove =>
       /\ \A p \in Registered :
            IF p \in wparts
            THEN /\ cancelReaders'[p] = cancelReaders[p]
                 /\ readers'[cancelReaders[p]] = readers[cancelReaders[p]]
            ELSE /\ cancelReaders'[p] = NoReader
                 /\ readers'[cancelReaders[p]].cancelled
                 /\ readers'[cancelReaders[p]].closeCalls =
                      readers[cancelReaders[p]].closeCalls + 1
       /\ \A p \in Parts \ Registered : cancelReaders'[p] = NoReader
       /\ data' = data
       /\ task' = task]_vars

\* The entry of a partition that wrote a key was removed, the key is still
\* in the store, and another partition is still registered.
C9_Witness ==
  \E r \in 1..nReaders :
     /\ readers[r].cancelled
     /\ cancelReaders[readers[r].part] = NoReader
     /\ \E i \in 1..readers[r].pos :
          /\ task[r] # "msg"
          /\ Len(log[readers[r].part][i].payload) > 0
          /\ data[log[readers[r].part][i].key] = log[readers[r].part][i].payload[1]
     /\ \E p \in Parts : cancelReaders[p] # NoReader

\* The keys whose most recently applied record was not a tombstone.
LiveKeys == {k \in Keys : lastApplied[k] # NoRecordYet /\ Len(lastApplied[k]) > 0}

Holding(r) == (wreader = r /\ wpc = "msg") \/ task[r] = "msg"

\* The index, in its partition, of the last record the reader's threads
\* have applied.
AppliedUpTo(r) == IF Holding(r) THEN readers[r].pos - 1 ELSE readers[r].pos

\* C11: the records of a partition are applied, and so handed to the
\* listeners, in the order the partition produced them: a record that is
\* about to be applied comes after every record of its partition applied so
\* far, whichever reader of the partition applied it; and one record's
\* notifications are over before the next record is applied.
C11_PartitionOrder ==
  /\ \A r \in 1..nReaders : Holding(r) =>
        \A r2 \in (1..nReaders) \ {r} :
           readers[r2].part = readers[r].part => AppliedUpTo(r2) < readers[r].pos
  /\ Cardinality(Notifying) <= 1
  /\ \A t \in Notifying : dataMu = t

\* C20: when newTableView returns the error of its partitionUpdateCheck, no
\* reader that the check opened is still open, no tailing goroutine that it
\* started is running, and the topology watcher was not started.
C20_FailedConstructionLeaksNothing ==
  phase = "failed" =>
    /\ OpenReaders = {}
    /\ Running = {}
    /\ wpc = "failed"

\* A partitionUpdateCheck returns the error of TopicPartitions or newReader.
CheckFails ==
  \/ PartitionUpdateCheckEnumerateFail
  \/ \E p \in Parts : PartitionUpdateCheckOpenFail(p)

\* C16: a failure of TopicPartitions or of newReader makes that
\* partitionUpdateCheck return an error, not holding readersMu, and leaves
\* every registry entry, its reader and its tailing task as they were; in
\* the periodic loop the watcher goes on to its select, and from there it
\* starts another check on the next tick while closedCh is not closed.
C16_FailedCheckKeepsEntries ==
  /\ [][CheckFails =>
          /\ UNCHANGED <<cancelReaders, readers, task, data>>
          /\ ~prevOK'
          /\ readersMu' # "w"
          /\ phase = "periodic" => (phase' = "periodic" /\ wpc' = "select")]_vars
  /\ []((wpc = "select" /\ closedCh = 0) => ENABLED PeriodicCheckTick)
  /\ [][PeriodicCheckTick => (wpc' = "start" /\ phase' = "periodic")]_vars

\* A periodic check has failed on a partition that is new to the registry;
\* the entries registered before are there with their tailing tasks running.
C16_Witness ==
  /\ phase = "periodic"
  /\ ~prevOK
  /\ wpc = "select"
  /\ closedCh = 0
  /\ topo \ Registered # {}
  /\ Registered # {}
  /\ \A p \in Registered : cancelReaders[p] \in Running

\* C15: when Next returns an error while partitionUpdateCheck drains a new
\* partition, that call returns an error without retrying the drain: it has
\* left the drain loop and released readersMu, and the entries registered
\* before are still registered.
C15_DrainErrorAborts ==
  [][PartitionUpdateCheckDrainError =>
       /\ wpc' \in {"select", "failed"}
       /\ ~prevOK'
       /\ readersMu' # "w"
       /\ UNCHANGED cancelReaders]_vars

\* C17: a tailing goroutine returns only from its call of Next, only when
\* that Next returns ConsumerClosed or context.Canceled, and then without
\* applying a record; it returns whenever Next returns one of the two; on
\* any other error of Next it stays in its loop, about to call Next again.
C17_TailingTermination ==
  /\ [][\A r \in ReaderIds :
          (task[r] # "done" /\ task'[r] = "done") =>
             /\ task[r] = "next"
             /\ NextFails(r)
             /\ UNCHANGED <<data, readers, lastApplied>>]_vars
  /\ [][\A r \in ReaderIds : WatchReaderExit(r) => task'[r] = "done"]_vars
  /\ [][\A r \in ReaderIds :
          WatchReaderTransient(r) =>
             (task'[r] = "next" /\ UNCHANGED <<data, readers>>)]_vars

\* One tailing goroutine has returned on the cancellation of its context
\* while another, whose reader is neither closed nor cancelled, is in its
\* loop after the environment's errors.
C17_Witness ==
  \E r, r2 \in 1..nReaders :
     /\ task[r] = "done"
     /\ readers[r].cancelled
     /\ task[r2] = "next"
     /\ ~NextFails(r2)
     /\ nEvents > TotalRecords + 1

\* C14: while handleMessage notifies the listeners of a tombstone, the value
\* of every call it makes is the absent value.
C14_TombstoneDeliversAbsent ==
  \A t \in Notifying :
     IsTombstone(CurMsg(t).payload) =>
        \A errs \in SUBSET Subs :
           \A i \in 1..Len(NotifyCalls(t, errs)) :
              NotifyCalls(t, errs)[i].value = NoEntry

\* C18: while handleMessage notifies, it calls every registered listener
\* once, in the order of tv.listeners, with the key of the record and the
\* value the state store now holds for it, whichever listeners return an
\* error.
C18_NotifyEveryListener ==
  \A t \in Notifying :
     \A errs \in SUBSET Subs :
        LET calls == NotifyCalls(t, errs)
        IN  /\ Len(calls) = Len(listeners)
            /\ \A i \in 1..Len(calls) :
                  /\ calls[i].listener = listeners[i]
                  /\ calls[i].key = CurMsg(t).key
                  /\ calls[i].value = Get(CurMsg(t).key)

\* What a caller reads through the map the last Entries() returned.
EntriesView == IF entriesRef = "store" THEN data ELSE entriesCopy

\* C12: the map Entries() returned keeps the contents the store had when
\* Entries() returned, whatever handleMessage applies afterwards.
C12_EntriesIndependent ==
  entriesRef # "none" => EntriesView = entriesCopy

\* The goroutines that wait in a Lock() of dataMu inside a read operation.
WaitingForDataMu == {x \in Callers : rat[x] \in {"lock", "size"}}

\* C13: a goroutine of the application that waits for dataMu inside a read
\* operation does not hold dataMu itself, so that its Lock() returns once
\* the goroutines holding dataMu have released it.
C13_ReadsReturn ==
  User \in WaitingForDataMu => dataMu # User

\* C19: a goroutine of the view whose callback waits for dataMu inside a
\* read operation does not hold dataMu itself, so that the callback returns
\* once the goroutines holding dataMu have released it.
C19_CallbacksReturn ==
  \A t \in Threads : t \in WaitingForDataMu => dataMu # t

====
